---- MODULE Spec2Model ----
(***************************************************************************)
(* A model of the AWC blog backend (src/server.js): the in-memory record  *)
(* stores (blog comments, prayers with hearts and nested comments,        *)
(* testimonials with approval) and the testimonial submission-window      *)
(* gate.  Every Express handler runs to completion without awaiting, so   *)
(* each handler is one atomic action.                                     *)
(*                                                                         *)
(* Time.  The clock is counted in hours since Sunday 2024-09-01 00:00     *)
(* local time.  A reading t stands for any instant of that hour: the      *)
(* handlers look only at the order of readings and at their calendar      *)
(* fields (weekday, hour, day of month), and setHours(12, 0, 0, 0) clears *)
(* everything below the hour.  toISOString() followed by new Date(...)    *)
(* is lossless at the clock's resolution, so created_at is kept as the    *)
(* reading itself.                                                         *)
(*                                                                         *)
(* Strings.  A JavaScript string is described by the number of leading    *)
(* whitespace characters, the length of its core (first to last           *)
(* non-whitespace character) and the number of trailing whitespace        *)
(* characters: this is all that trim(), length and the comparison with '' *)
(* look at.  Identifiers are kept as their decimal digit strings, as      *)
(* String(n) produces them and as route parameters carry them.            *)
(***************************************************************************)
EXTENDS Integers, Sequences, FiniteSets, Bags, TLC

VARIABLES
    comments,           \* blog comments: post id -> array, newest first
    prayers,            \* array of prayer records
    nextPrayerId,       \* counter of the next prayer id
    prayerComments,     \* prayer id -> array of comment records
    nextCommentId,      \* counter of the next prayer-comment id
    testimonials,       \* array of testimonial records
    nextTestimonialId,  \* counter of the next testimonial id
    clock,              \* the wall clock (hours since the epoch)
    res,                \* the last request and the response it got
    requests            \* the requests in flight and the answers given

vars == <<comments, prayers, nextPrayerId, prayerComments, nextCommentId,
          testimonials, nextTestimonialId, clock, res, requests>>

store == <<comments, prayers, nextPrayerId, prayerComments, nextCommentId,
           testimonials, nextTestimonialId>>

(***************************************************************************)
(* Bounds of the model.                                                    *)
(***************************************************************************)
MaxCreates == 2     \* successful creates over all collections
MaxHearts == 2      \* hearts added to the stored prayers
MaxTicks == 2       \* hours the clock advances in the store specifications
MaxDrift == 1       \* hours that may pass between two reads of the clock
MaxRequests == 2    \* requests issued while others are in flight

(***************************************************************************)
(* Calendar: Date fields of a clock reading.                              *)
(***************************************************************************)
HoursPerDay == 24
DaysPerWeek == 7

\* the store specifications start on Monday 23:00, an hour before the gate
\* of isTestimonialSubmissionOpen opens
StartClock == HoursPerDay + 23

\* September, October, November 2024; 2024-09-01 is a Sunday.
MonthLengths == <<30, 31, 30>>

RECURSIVE SumLengths(_)
SumLengths(n) == IF n = 0 THEN 0 ELSE MonthLengths[n] + SumLengths(n - 1)

LastHour == SumLengths(Len(MonthLengths)) * HoursPerDay - 1

DayOf(t) == t \div HoursPerDay

\* Date.prototype.getHours
getHours(t) == t % HoursPerDay

\* Date.prototype.getDay: 0 = Sunday .. 6 = Saturday
getDay(t) == DayOf(t) % DaysPerWeek

\* index (from 1) of the month holding day d; days past the table stay in
\* a month of their own after it
MonthOf(d) ==
    IF \E m \in 1..Len(MonthLengths) : d < SumLengths(m)
    THEN CHOOSE m \in 1..Len(MonthLengths) :
            d < SumLengths(m) /\ d >= SumLengths(m - 1)
    ELSE Len(MonthLengths) + 1

\* the day on which the month of reading t starts
MonthStart(t) == SumLengths(MonthOf(DayOf(t)) - 1)

\* Date.prototype.getDate: day of the month, from 1
getDate(t) == DayOf(t) - MonthStart(t) + 1

\* Date.prototype.setDate(n): day n of the month t lies in, overflowing
\* into the following months; the time of day is kept
setDate(t, n) == (MonthStart(t) + n - 1) * HoursPerDay + getHours(t)

\* Date.prototype.setHours(h, 0, 0, 0)
setHours(t, h) == DayOf(t) * HoursPerDay + h

(***************************************************************************)
(* The admission gate.                                                     *)
(***************************************************************************)
isTestimonialSubmissionOpenMutant(now) ==
    LET dayOfWeek == getDay(now)
        hour == getHours(now)
    IN  \/ (dayOfWeek >= 3 /\ dayOfWeek <= 5)
        \/ (dayOfWeek = 2 /\ hour >= 12)
        \/ (dayOfWeek = 5 /\ hour <= 23)

\* isTestimonialSubmissionOpen, of the reading `now` it takes
isTestimonialSubmissionOpen(now) ==
    LET dayOfWeek == getDay(now)
        hour == getHours(now)
    IN  (dayOfWeek >= 2 /\ dayOfWeek <= 5)
        \/ (dayOfWeek = 2 /\ hour >= 12)
        \/ (dayOfWeek = 5 /\ hour <= 23)

(***************************************************************************)
(* Strings and identifiers.                                                *)
(***************************************************************************)
Undefined == [kind |-> "undefined"]

Str(l, c, t) == [kind |-> "string", lead |-> l, core |-> c, trail |-> t]

IsString(s) == s.kind = "string"

\* String.prototype.length
Length(s) == s.lead + s.core + s.trail

\* String.prototype.trim
Trim(s) == Str(0, s.core, 0)

\* s === ''
IsEmpty(s) == Length(s) = 0

\* !s for a value that is undefined or a string
Falsy(s) == ~IsString(s) \/ IsEmpty(s)

\* the literal 'Anonymous'
Anonymous == Str(0, 9, 0)

\* String(n) for a natural number: its decimal digits
RECURSIVE String(_)
String(n) == IF n < 10 THEN <<n>> ELSE Append(String(n \div 10), n % 10)

\* null, and a timestamp that is set
Null == <<>>
At(t) == <<t>>

(***************************************************************************)
(* Array helpers.                                                          *)
(***************************************************************************)
\* Array.prototype.findIndex, from 1; 0 when nothing matches (-1 in JS)
FindIndex(arr, id) ==
    IF \E i \in 1..Len(arr) : arr[i].id = id
    THEN CHOOSE i \in 1..Len(arr) :
            arr[i].id = id /\ \A j \in 1..(i - 1) : arr[j].id # id
    ELSE 0

\* Array.prototype.splice(i, 1)
Splice(arr, i) == [k \in 1..(Len(arr) - 1) |-> IF k < i THEN arr[k] ELSE arr[k + 1]]

\* insert e into the array s, already sorted by created_at descending,
\* after every element that is not older than e
RECURSIVE InsertDesc(_, _)
InsertDesc(s, e) ==
    IF s = <<>> THEN <<e>>
    ELSE IF s[1].created_at >= e.created_at
         THEN <<s[1]>> \o InsertDesc(Tail(s), e)
         ELSE <<e>> \o s

RECURSIVE SortFrom(_, _)
SortFrom(done, rest) ==
    IF rest = <<>> THEN done
    ELSE SortFrom(InsertDesc(done, rest[1]), Tail(rest))

SortByCreatedDescUnstable(arr) ==
    LET RECURSIVE Ins(_, _)
        Ins(s, e) == IF s = <<>> THEN <<e>>
                     ELSE IF s[1].created_at > e.created_at
                          THEN <<s[1]>> \o Ins(Tail(s), e)
                          ELSE <<e>> \o s
        RECURSIVE Go(_, _)
        Go(done, rest) == IF rest = <<>> THEN done
                          ELSE Go(Ins(done, rest[1]), Tail(rest))
    IN  Go(<<>>, arr)

SortByCreatedDescMutant(arr) ==
    LET RECURSIVE Ins(_, _)
        Ins(s, e) == IF s = <<>> THEN <<e>>
                     ELSE IF s[1].created_at <= e.created_at
                          THEN <<s[1]>> \o Ins(Tail(s), e)
                          ELSE <<e>> \o s
        RECURSIVE Go(_, _)
        Go(done, rest) == IF rest = <<>> THEN done
                          ELSE Go(Ins(done, rest[1]), Tail(rest))
    IN  Go(<<>>, arr)

\* arr.sort((a, b) => new Date(b.created_at) - new Date(a.created_at)):
\* created_at descending, stable
SortByCreatedDesc(arr) == SortFrom(<<>>, arr)

(***************************************************************************)
(* Construction: the seeded stores (server.js 41, 75-96, 172-173,         *)
(* 363-384).  The module is loaded at reading `load`; the second seeded   *)
(* prayer and the testimonials read the clock at `later`, which is the    *)
(* same reading or a later one.                                            *)
(***************************************************************************)
FirstPrayerId == 3
FirstCommentId == 1
FirstTestimonialId == 3
SeedHearts1 == 23
SeedHearts2 == 18
MaxTestimonyLength == 2000

SeedPrayers(load, later) ==
    << [id |-> String(1), name |-> Str(0, 8, 0), request |-> Str(0, 44, 0),
        hearts |-> SeedHearts1, created_at |-> load, anonymous |-> FALSE],
       [id |-> String(2), name |-> Anonymous, request |-> Str(0, 43, 0),
        hearts |-> SeedHearts2, created_at |-> later, anonymous |-> TRUE] >>

SeedTestimonials(later) ==
    << [id |-> String(1), name |-> Str(0, 8, 0), testimony |-> Str(0, 145, 0),
        anonymous |-> FALSE, approved |-> TRUE,
        created_at |-> later, approved_at |-> At(later)],
       [id |-> String(2), name |-> Anonymous, testimony |-> Str(0, 144, 0),
        anonymous |-> TRUE, approved |-> TRUE,
        created_at |-> later - HoursPerDay,
        approved_at |-> At(later - HoursPerDay \div 2)] >>

\* the stores as the module's top level leaves them
Seeded(load, later) ==
    /\ comments = <<>>
    /\ prayers = SeedPrayers(load, later)
    /\ nextPrayerId = FirstPrayerId
    /\ prayerComments = <<>>
    /\ nextCommentId = FirstCommentId
    /\ testimonials = SeedTestimonials(later)
    /\ nextTestimonialId = FirstTestimonialId
    /\ res = [op |-> "listen"]
    /\ requests = [waiting |-> EmptyBag, answers |-> EmptyBag]

Init ==
    \E later \in StartClock..(StartClock + MaxDrift) :
        Seeded(StartClock, later) /\ clock = later

(***************************************************************************)
(* Bounding the model: the creates still allowed, the ids a request may   *)
(* name, the request bodies.                                               *)
(***************************************************************************)
RECURSIVE TotalLength(_, _)
TotalLength(f, keys) ==
    IF keys = {} THEN 0
    ELSE LET k == CHOOSE x \in keys : TRUE
         IN  Len(f[k]) + TotalLength(f, keys \ {k})

Created ==
    (nextPrayerId - FirstPrayerId) + (nextCommentId - FirstCommentId)
    + (nextTestimonialId - FirstTestimonialId)
    + TotalLength(comments, DOMAIN comments)

MayCreate == Created < MaxCreates

\* the route parameters tried against a collection whose counter is next:
\* every id the counter has handed out (and the seeded ones), and "01",
\* which is no id the server ever assigns
ParamIds(next) == {String(n) : n \in 1..(next - 1)} \cup {<<0, 1>>}

PostIds == {"post-a", "post-b"}

\* the request texts a client sends: missing, empty, blank, padded
TextInputs == {Undefined, Str(0, 0, 0), Str(2, 0, 0), Str(1, 5, 1)}

\* the display name a client sends
SomeName == Str(1, 3, 0)

\* bodies of POST /api/prayers: each text that is refused, sent anonymously,
\* and a text that passes, sent under a name
PrayerBodies ==
    [request : TextInputs \ {Str(1, 5, 1)}, name : {Undefined}, anonymous : {TRUE}]
    \cup [request : {Str(1, 5, 1)}, name : {SomeName}, anonymous : {FALSE}]

\* bodies of POST /api/prayers/:id/comments
CommentBodies ==
    [content : TextInputs, author_name : {Undefined}, anonymous : {FALSE}]

(***************************************************************************)
(* The clock.                                                              *)
(***************************************************************************)
Tick ==
    /\ clock < StartClock + MaxTicks
    /\ clock' = clock + 1
    /\ res' = [op |-> "tick"]
    /\ UNCHANGED store

(***************************************************************************)
(* Prayer wall (server.js 98-160).                                         *)
(***************************************************************************)
\* GET /api/prayers: sorts the stored array in place and returns it
GetPrayers ==
    /\ prayers' = SortByCreatedDesc(prayers)
    /\ res' = [op |-> "getPrayers", status |-> 200,
               list |-> SortByCreatedDesc(prayers)]
    /\ UNCHANGED <<comments, nextPrayerId, prayerComments, nextCommentId,
                   testimonials, nextTestimonialId, clock>>

PrayerRequestMissingMutant(body) == Falsy(body.request)

\* the validation of POST /api/prayers
PrayerRequestMissing(body) == Falsy(body.request) \/ IsEmpty(Trim(body.request))

NewPrayerMutant(body) ==
    [id |-> String(nextPrayerId),
     name |-> IF body.anonymous THEN Anonymous
              ELSE IF Falsy(body.name) THEN Anonymous ELSE body.name,
     request |-> Trim(body.request),
     hearts |-> 0 - 1,
     created_at |-> clock,
     anonymous |-> body.anonymous]

\* the record POST /api/prayers builds
NewPrayer(body) ==
    [id |-> String(nextPrayerId),
     name |-> IF body.anonymous THEN Anonymous
              ELSE IF Falsy(body.name) THEN Anonymous ELSE body.name,
     request |-> Trim(body.request),
     hearts |-> 0,
     created_at |-> clock,
     anonymous |-> body.anonymous]

CreatePrayerMutant(body) ==
    /\ MayCreate
    /\ IF PrayerRequestMissing(body)
       THEN /\ res' = [op |-> "createPrayer", request |-> body.request,
                       status |-> 400]
            /\ UNCHANGED <<prayers, nextPrayerId>>
       ELSE /\ nextPrayerId' = IF Len(prayers) < FirstPrayerId - 1
                               THEN nextPrayerId
                               ELSE nextPrayerId + 1
            /\ prayers' = Append(prayers, NewPrayer(body))
            /\ res' = [op |-> "createPrayer", request |-> body.request,
                       status |-> 201, id |-> String(nextPrayerId)]
    /\ UNCHANGED <<comments, prayerComments, nextCommentId, testimonials,
                   nextTestimonialId, clock>>

\* POST /api/prayers
CreatePrayer(body) ==
    /\ MayCreate
    /\ IF PrayerRequestMissing(body)
       THEN /\ res' = [op |-> "createPrayer", request |-> body.request,
                       status |-> 400]
            /\ UNCHANGED <<prayers, nextPrayerId>>
       ELSE /\ nextPrayerId' = nextPrayerId + 1
            /\ prayers' = Append(prayers, NewPrayer(body))
            /\ res' = [op |-> "createPrayer", request |-> body.request,
                       status |-> 201, id |-> String(nextPrayerId)]
    /\ UNCHANGED <<comments, prayerComments, nextCommentId, testimonials,
                   nextTestimonialId, clock>>

\* the hearts a prayer had when it entered the store
InitialHearts(id) ==
    IF id = String(1) THEN SeedHearts1 ELSE IF id = String(2) THEN SeedHearts2 ELSE 0

\* the hearts added to the stored prayers
RECURSIVE HeartsAdded(_)
HeartsAdded(arr) ==
    IF arr = <<>> THEN 0
    ELSE arr[1].hearts - InitialHearts(arr[1].id) + HeartsAdded(Tail(arr))

MayHeart == HeartsAdded(prayers) < MaxHearts

HeartPrayerMutant(id) ==
    LET i == FindIndex(prayers, id)
    IN  /\ IF i = 0
           THEN /\ res' = [op |-> "heart", id |-> id, status |-> 404]
                /\ UNCHANGED prayers
           ELSE /\ MayHeart
                /\ prayers' = [j \in 1..Len(prayers) |->
                                  [prayers[j] EXCEPT !.hearts = @ + 1]]
                /\ res' = [op |-> "heart", id |-> id, status |-> 200]
        /\ UNCHANGED <<comments, nextPrayerId, prayerComments, nextCommentId,
                       testimonials, nextTestimonialId, clock>>

\* POST /api/prayers/:id/heart
HeartPrayer(id) ==
    LET i == FindIndex(prayers, id)
    IN  /\ IF i = 0
           THEN /\ res' = [op |-> "heart", id |-> id, status |-> 404]
                /\ UNCHANGED prayers
           ELSE /\ MayHeart
                /\ prayers' = [prayers EXCEPT ![i].hearts = @ + 1]
                /\ res' = [op |-> "heart", id |-> id, status |-> 200]
        /\ UNCHANGED <<comments, nextPrayerId, prayerComments, nextCommentId,
                       testimonials, nextTestimonialId, clock>>

(***************************************************************************)
(* Comments on prayers and the admin endpoints (server.js 171-351).       *)
(***************************************************************************)
\* obj[key] = value on a plain object
Put(obj, key, value) ==
    [k \in DOMAIN obj \cup {key} |-> IF k = key THEN value ELSE obj[k]]

\* delete obj[key]
Remove(obj, key) == [k \in DOMAIN obj \ {key} |-> obj[k]]

\* obj[key] || []
GetOrEmpty(obj, key) == IF key \in DOMAIN obj THEN obj[key] ELSE <<>>

\* GET /api/prayers/:id/comments: sorts the stored array in place
GetPrayerComments(id) ==
    /\ prayerComments' = IF id \in DOMAIN prayerComments
                         THEN Put(prayerComments, id,
                                  SortByCreatedDesc(prayerComments[id]))
                         ELSE prayerComments
    /\ res' = [op |-> "getPrayerComments", id |-> id, status |-> 200,
               list |-> SortByCreatedDesc(GetOrEmpty(prayerComments, id))]
    /\ UNCHANGED <<comments, prayers, nextPrayerId, nextCommentId,
                   testimonials, nextTestimonialId, clock>>

\* the validation of POST /api/prayers/:id/comments
CommentContentMissing(body) == Falsy(body.content) \/ IsEmpty(Trim(body.content))

\* the record POST /api/prayers/:id/comments builds
NewPrayerComment(id, body) ==
    [id |-> String(nextCommentId),
     author_name |-> IF body.anonymous THEN Anonymous
                     ELSE IF Falsy(body.author_name) THEN Anonymous
                          ELSE body.author_name,
     content |-> Trim(body.content),
     created_at |-> clock,
     anonymous |-> body.anonymous,
     prayer_id |-> id]

\* POST /api/prayers/:id/comments
CreatePrayerComment(id, body) ==
    /\ MayCreate
    /\ IF CommentContentMissing(body)
       THEN /\ res' = [op |-> "createPrayerComment", id |-> id,
                       content |-> body.content, status |-> 400]
            /\ UNCHANGED <<prayerComments, nextCommentId>>
       ELSE IF FindIndex(prayers, id) = 0
       THEN /\ res' = [op |-> "createPrayerComment", id |-> id,
                       content |-> body.content, status |-> 404]
            /\ UNCHANGED <<prayerComments, nextCommentId>>
       ELSE /\ nextCommentId' = nextCommentId + 1
            /\ prayerComments' =
                  Put(prayerComments, id,
                      Append(GetOrEmpty(prayerComments, id),
                             NewPrayerComment(id, body)))
            /\ res' = [op |-> "createPrayerComment", id |-> id,
                       content |-> body.content, status |-> 201,
                       comment |-> String(nextCommentId)]
    /\ UNCHANGED <<comments, prayers, nextPrayerId, testimonials,
                   nextTestimonialId, clock>>

DeleteCommentMutant(id) ==
    LET found == \E pid \in DOMAIN prayerComments :
                    FindIndex(prayerComments[pid], id) # 0
    IN  /\ prayerComments' =
              [pid \in DOMAIN prayerComments |->
                  IF FindIndex(prayerComments[pid], id) # 0
                  THEN SubSeq(prayerComments[pid], 1,
                              FindIndex(prayerComments[pid], id) - 1)
                  ELSE prayerComments[pid]]
        /\ res' = [op |-> "deleteComment", id |-> id,
                   status |-> IF found THEN 200 ELSE 404]
        /\ UNCHANGED <<comments, prayers, nextPrayerId, nextCommentId,
                       testimonials, nextTestimonialId, clock>>

\* DELETE /api/comments/:id: in every prayer's array, the first comment
\* with that id is removed
DeleteComment(id) ==
    LET found == \E pid \in DOMAIN prayerComments :
                    FindIndex(prayerComments[pid], id) # 0
    IN  /\ prayerComments' =
              [pid \in DOMAIN prayerComments |->
                  IF FindIndex(prayerComments[pid], id) # 0
                  THEN Splice(prayerComments[pid],
                              FindIndex(prayerComments[pid], id))
                  ELSE prayerComments[pid]]
        /\ res' = [op |-> "deleteComment", id |-> id,
                   status |-> IF found THEN 200 ELSE 404]
        /\ UNCHANGED <<comments, prayers, nextPrayerId, nextCommentId,
                       testimonials, nextTestimonialId, clock>>

DeletePrayerMutant(id) ==
    LET prayerIndex == FindIndex(prayers, id)
    IN  /\ IF prayerIndex = 0
           THEN /\ res' = [op |-> "deletePrayer", id |-> id, status |-> 404]
                /\ UNCHANGED <<prayers, prayerComments>>
           ELSE /\ prayers' = Splice(prayers, prayerIndex)
                /\ prayerComments' = prayerComments
                /\ res' = [op |-> "deletePrayer", id |-> id, status |-> 200]
        /\ UNCHANGED <<comments, nextPrayerId, nextCommentId, testimonials,
                       nextTestimonialId, clock>>

\* DELETE /api/prayers/:id: the prayer and its comments
DeletePrayer(id) ==
    LET prayerIndex == FindIndex(prayers, id)
    IN  /\ IF prayerIndex = 0
           THEN /\ res' = [op |-> "deletePrayer", id |-> id, status |-> 404]
                /\ UNCHANGED <<prayers, prayerComments>>
           ELSE /\ prayers' = Splice(prayers, prayerIndex)
                /\ prayerComments' = Remove(prayerComments, id)
                /\ res' = [op |-> "deletePrayer", id |-> id, status |-> 200]
        /\ UNCHANGED <<comments, nextPrayerId, nextCommentId, testimonials,
                       nextTestimonialId, clock>>

\* the number a decimal digit string stands for
RECURSIVE NumberOf(_)
NumberOf(digits) ==
    IF digits = <<>> THEN 0
    ELSE 10 * NumberOf(SubSeq(digits, 1, Len(digits) - 1)) + digits[Len(digits)]

\* Object.keys(obj) for keys that are integer indices: ascending
RECURSIVE KeysOf(_)
KeysOf(keys) ==
    IF keys = {} THEN <<>>
    ELSE LET k == CHOOSE x \in keys : \A y \in keys : NumberOf(x) <= NumberOf(y)
         IN  <<k>> \o KeysOf(keys \ {k})

\* the comments of the prayers named by pids, each with prayer_id set to
\* its key
RECURSIVE AllComments(_)
AllComments(pids) ==
    IF pids = <<>> THEN <<>>
    ELSE [i \in 1..Len(prayerComments[pids[1]]) |->
             [prayerComments[pids[1]][i] EXCEPT !.prayer_id = pids[1]]]
         \o AllComments(Tail(pids))

\* GET /api/admin/comments
GetAdminComments ==
    LET allComments == AllComments(KeysOf(DOMAIN prayerComments))
    IN  /\ res' = [op |-> "getAdminComments", status |-> 200,
                   list |-> SortByCreatedDesc(allComments),
                   total |-> Len(allComments)]
        /\ UNCHANGED <<store, clock>>

SumHeartsMutant(arr) == IF arr = <<>> THEN 0 ELSE SeedHearts1 + SeedHearts2

\* prayers.reduce((sum, prayer) => sum + (prayer.hearts || 0), 0)
RECURSIVE SumHearts(_)
SumHearts(arr) == IF arr = <<>> THEN 0 ELSE arr[1].hearts + SumHearts(Tail(arr))

\* GET /api/stats
GetStats ==
    /\ res' = [op |-> "getStats", status |-> 200,
               totalPrayers |-> Len(prayers),
               totalHearts |-> SumHearts(prayers),
               totalComments |-> TotalLength(prayerComments, DOMAIN prayerComments)]
    /\ UNCHANGED <<store, clock>>

(***************************************************************************)
(* Testimonials (server.js 363-581).                                       *)
(***************************************************************************)
\* a testimony of exactly the maximum length, and one a character longer
LongestTestimony == Str(1, MaxTestimonyLength - 1, 0)
TooLongTestimony == Str(1, MaxTestimonyLength, 0)

\* bodies of POST /api/testimonials: each testimony that is refused, sent
\* anonymously, and the longest testimony sent under each name
TestimonialBodies ==
    [testimony : {Undefined, Str(0, 0, 0), Str(2, 0, 0), TooLongTestimony},
     name : {Undefined}, anonymous : {TRUE}]
    \cup [testimony : {LongestTestimony},
          name : {Undefined, Str(2, 0, 0), SomeName}, anonymous : {FALSE}]

\* GET /api/testimonials: sorts the stored array in place
GetTestimonials ==
    /\ testimonials' = SortByCreatedDesc(testimonials)
    /\ res' = [op |-> "getTestimonials", status |-> 200, at |-> clock,
               list |-> SortByCreatedDesc(testimonials),
               submissionWindowOpen |-> isTestimonialSubmissionOpen(clock)]
    /\ UNCHANGED <<comments, prayers, nextPrayerId, prayerComments,
                   nextCommentId, nextTestimonialId, clock>>

TestimonialErrorMutant(body) ==
    IF Falsy(body.testimony)
    THEN "Testimony content required"
    ELSE IF Length(body.testimony) > MaxTestimonyLength
    THEN "Testimony must be less than 2000 characters"
    ELSE IF ~body.anonymous /\ (Falsy(body.name) \/ IsEmpty(Trim(body.name)))
    THEN "Name required when not submitting anonymously"
    ELSE ""

\* the validation of POST /api/testimonials: the error of a body, or "" for
\* a body that passes
TestimonialError(body) ==
    IF Falsy(body.testimony) \/ IsEmpty(Trim(body.testimony))
    THEN "Testimony content required"
    ELSE IF Length(body.testimony) > MaxTestimonyLength
    THEN "Testimony must be less than 2000 characters"
    ELSE IF ~body.anonymous /\ (Falsy(body.name) \/ IsEmpty(Trim(body.name)))
    THEN "Name required when not submitting anonymously"
    ELSE ""

NewTestimonialMutant(body) ==
    [id |-> String(nextTestimonialId),
     name |-> IF body.anonymous THEN Anonymous ELSE Trim(body.name),
     testimony |-> Trim(body.testimony),
     anonymous |-> body.anonymous,
     approved |-> TRUE,
     created_at |-> clock,
     approved_at |-> Null]

\* the record POST /api/testimonials builds
NewTestimonial(body) ==
    [id |-> String(nextTestimonialId),
     name |-> IF body.anonymous THEN Anonymous ELSE Trim(body.name),
     testimony |-> Trim(body.testimony),
     anonymous |-> body.anonymous,
     approved |-> FALSE,
     created_at |-> clock,
     approved_at |-> Null]

CreateTestimonialMutant(body) ==
    /\ MayCreate
    /\ IF TestimonialError(body) # ""
       THEN /\ res' = [op |-> "createTestimonial", body |-> body, at |-> clock,
                       status |-> 400, error |-> TestimonialError(body)]
            /\ UNCHANGED <<testimonials, nextTestimonialId>>
       ELSE IF ~isTestimonialSubmissionOpen(clock)
       THEN /\ res' = [op |-> "createTestimonial", body |-> body, at |-> clock,
                       status |-> 403]
            /\ UNCHANGED <<testimonials, nextTestimonialId>>
       ELSE /\ nextTestimonialId' = nextTestimonialId + 1
            /\ testimonials' = Append(testimonials, NewTestimonial(body))
            /\ res' = [op |-> "createTestimonial", body |-> body, at |-> clock,
                       status |-> 201, id |-> String(nextTestimonialId)]
    /\ UNCHANGED <<comments, prayers, nextPrayerId, prayerComments,
                   nextCommentId, clock>>

\* POST /api/testimonials
CreateTestimonial(body) ==
    /\ MayCreate
    /\ IF ~isTestimonialSubmissionOpen(clock)
       THEN /\ res' = [op |-> "createTestimonial", body |-> body, at |-> clock,
                       status |-> 403]
            /\ UNCHANGED <<testimonials, nextTestimonialId>>
       ELSE IF TestimonialError(body) # ""
       THEN /\ res' = [op |-> "createTestimonial", body |-> body, at |-> clock,
                       status |-> 400, error |-> TestimonialError(body)]
            /\ UNCHANGED <<testimonials, nextTestimonialId>>
       ELSE /\ nextTestimonialId' = nextTestimonialId + 1
            /\ testimonials' = Append(testimonials, NewTestimonial(body))
            /\ res' = [op |-> "createTestimonial", body |-> body, at |-> clock,
                       status |-> 201, id |-> String(nextTestimonialId)]
    /\ UNCHANGED <<comments, prayers, nextPrayerId, prayerComments,
                   nextCommentId, clock>>

ApproveTestimonialUnstamped(id) ==
    LET i == FindIndex(testimonials, id)
    IN  /\ IF i = 0
           THEN /\ res' = [op |-> "approve", id |-> id, status |-> 404]
                /\ UNCHANGED testimonials
           ELSE IF testimonials[i].approved
           THEN /\ res' = [op |-> "approve", id |-> id, status |-> 400]
                /\ UNCHANGED testimonials
           ELSE /\ testimonials' = [testimonials EXCEPT ![i].approved = TRUE]
                /\ res' = [op |-> "approve", id |-> id, status |-> 200]
        /\ UNCHANGED <<comments, prayers, nextPrayerId, prayerComments,
                       nextCommentId, nextTestimonialId, clock>>

ApproveTestimonialAgain(id) ==
    LET i == FindIndex(testimonials, id)
    IN  /\ IF i = 0
           THEN /\ res' = [op |-> "approve", id |-> id, status |-> 404]
                /\ UNCHANGED testimonials
           ELSE /\ testimonials' = [testimonials EXCEPT ![i].approved = TRUE,
                                                        ![i].approved_at = At(clock)]
                /\ res' = [op |-> "approve", id |-> id,
                           status |-> IF testimonials[i].approved THEN 400 ELSE 200]
        /\ UNCHANGED <<comments, prayers, nextPrayerId, prayerComments,
                       nextCommentId, nextTestimonialId, clock>>

\* POST /api/testimonials/:id/approve
ApproveTestimonial(id) ==
    LET i == FindIndex(testimonials, id)
    IN  /\ IF i = 0
           THEN /\ res' = [op |-> "approve", id |-> id, status |-> 404]
                /\ UNCHANGED testimonials
           ELSE IF testimonials[i].approved
           THEN /\ res' = [op |-> "approve", id |-> id, status |-> 400]
                /\ UNCHANGED testimonials
           ELSE /\ testimonials' = [testimonials EXCEPT ![i].approved = TRUE,
                                                        ![i].approved_at = At(clock)]
                /\ res' = [op |-> "approve", id |-> id, status |-> 200]
        /\ UNCHANGED <<comments, prayers, nextPrayerId, prayerComments,
                       nextCommentId, nextTestimonialId, clock>>

\* DELETE /api/testimonials/:id
DeleteTestimonial(id) ==
    LET testimonialIndex == FindIndex(testimonials, id)
    IN  /\ IF testimonialIndex = 0
           THEN /\ res' = [op |-> "deleteTestimonial", id |-> id, status |-> 404]
                /\ UNCHANGED testimonials
           ELSE /\ testimonials' = Splice(testimonials, testimonialIndex)
                /\ res' = [op |-> "deleteTestimonial", id |-> id, status |-> 200]
        /\ UNCHANGED <<comments, prayers, nextPrayerId, prayerComments,
                       nextCommentId, nextTestimonialId, clock>>

\* the next submission window GET /api/testimonials/status computes from
\* isOpen, the reading now and the reading nextSubmission starts from
NextSubmission(isOpen, now, nextSubmission) ==
    LET dayOfWeek == getDay(now)
        hour == getHours(now)
    IN  IF dayOfWeek = 0 \/ dayOfWeek = 1 \/ (dayOfWeek = 2 /\ hour < 12)
        THEN setHours(setDate(nextSubmission,
                              getDate(now) + ((2 + 7 - dayOfWeek) % 7)), 12)
        ELSE IF ~isOpen
        THEN setHours(setDate(nextSubmission,
                              getDate(now) + (7 - dayOfWeek + 2)), 12)
        ELSE nextSubmission

\* GET /api/testimonials/status, with every clock reading at most `limit`:
\* the handler reads the clock three times, in isTestimonialSubmissionOpen,
\* for now and for nextSubmission
GetStatus(limit) ==
    \E t1, t2, t3 \in clock..(clock + MaxDrift) :
        /\ t1 <= t2 /\ t2 <= t3 /\ t3 <= limit
        /\ clock' = t3
        /\ res' = [op |-> "getStatus", status |-> 200,
                   at |-> t1,
                   submissionOpen |-> isTestimonialSubmissionOpen(t1),
                   currentTime |-> t2,
                   started |-> t3,
                   nextSubmissionWindow |->
                       NextSubmission(isTestimonialSubmissionOpen(t1), t2, t3)]
        /\ UNCHANGED store

\* GET /api/admin/testimonials/pending
GetPendingTestimonials ==
    /\ res' = [op |-> "getPendingTestimonials", status |-> 200,
               pending |-> Cardinality({i \in 1..Len(testimonials) :
                                           ~testimonials[i].approved}),
               approved |-> Cardinality({i \in 1..Len(testimonials) :
                                            testimonials[i].approved}),
               total |-> Len(testimonials)]
    /\ UNCHANGED <<store, clock>>

(***************************************************************************)
(* Blog comments (server.js 41-65).                                        *)
(***************************************************************************)
BlogBodies == [author_name : {SomeName},
               content : {Undefined, Str(0, 0, 0), Str(1, 5, 1)}]

\* GET /api/comments/:postId
GetComments(postId) ==
    /\ res' = [op |-> "getComments", postId |-> postId, status |-> 200,
               list |-> GetOrEmpty(comments, postId)]
    /\ UNCHANGED <<store, clock>>

\* the record POST /api/comments/:postId builds
NewComment(body) ==
    [id |-> clock, author_name |-> body.author_name, content |-> body.content,
     created_at |-> "Just now"]

\* POST /api/comments/:postId
CreateComment(postId, body) ==
    /\ MayCreate
    /\ comments' = Put(comments, postId,
                       <<NewComment(body)>> \o GetOrEmpty(comments, postId))
    /\ res' = [op |-> "createComment", postId |-> postId, status |-> 200,
               comment |-> NewComment(body)]
    /\ UNCHANGED <<prayers, nextPrayerId, prayerComments, nextCommentId,
                   testimonials, nextTestimonialId, clock>>

(***************************************************************************)
(* The specifications.  The four stores share no state, so each is run on  *)
(* its own, with the clock.  Their requests are handled as they arrive:   *)
(* none is kept in flight.                                                 *)
(***************************************************************************)
NextPrayers ==
    \/ Tick /\ UNCHANGED requests
    \/ GetPrayers /\ UNCHANGED requests
    \/ \E body \in PrayerBodies : CreatePrayer(body) /\ UNCHANGED requests
    \/ \E id \in ParamIds(nextPrayerId) : HeartPrayer(id) /\ UNCHANGED requests
    \/ \E id \in ParamIds(nextPrayerId) : DeletePrayer(id) /\ UNCHANGED requests
    \/ GetStats /\ UNCHANGED requests

NextPrayerComments ==
    \/ Tick /\ UNCHANGED requests
    \/ \E id \in ParamIds(nextPrayerId) : GetPrayerComments(id) /\ UNCHANGED requests
    \/ \E id \in ParamIds(nextPrayerId), body \in CommentBodies :
          CreatePrayerComment(id, body) /\ UNCHANGED requests
    \/ \E id \in ParamIds(nextCommentId) : DeleteComment(id) /\ UNCHANGED requests
    \/ \E id \in ParamIds(nextPrayerId) : DeletePrayer(id) /\ UNCHANGED requests
    \/ GetAdminComments /\ UNCHANGED requests
    \/ GetStats /\ UNCHANGED requests

NextTestimonials ==
    \/ Tick /\ UNCHANGED requests
    \/ GetTestimonials /\ UNCHANGED requests
    \/ \E body \in TestimonialBodies : CreateTestimonial(body) /\ UNCHANGED requests
    \/ \E id \in ParamIds(nextTestimonialId) : ApproveTestimonial(id) /\ UNCHANGED requests
    \/ \E id \in ParamIds(nextTestimonialId) : DeleteTestimonial(id) /\ UNCHANGED requests
    \/ GetStatus(StartClock + MaxTicks) /\ UNCHANGED requests
    \/ GetPendingTestimonials /\ UNCHANGED requests

NextComments ==
    \/ Tick /\ UNCHANGED requests
    \/ \E postId \in PostIds : GetComments(postId) /\ UNCHANGED requests
    \/ \E postId \in PostIds, body \in BlogBodies : CreateComment(postId, body) /\ UNCHANGED requests

\* create, list and delete of every collection
NextCrud ==
    \/ Tick /\ UNCHANGED requests
    \/ GetPrayers /\ UNCHANGED requests
    \/ \E body \in PrayerBodies : CreatePrayer(body) /\ UNCHANGED requests
    \/ \E id \in ParamIds(nextPrayerId) : DeletePrayer(id) /\ UNCHANGED requests
    \/ \E id \in ParamIds(nextPrayerId) : GetPrayerComments(id) /\ UNCHANGED requests
    \/ \E id \in ParamIds(nextPrayerId), body \in CommentBodies :
          CreatePrayerComment(id, body) /\ UNCHANGED requests
    \/ \E id \in ParamIds(nextCommentId) : DeleteComment(id) /\ UNCHANGED requests
    \/ GetTestimonials /\ UNCHANGED requests
    \/ \E body \in TestimonialBodies : CreateTestimonial(body) /\ UNCHANGED requests
    \/ \E id \in ParamIds(nextTestimonialId) : DeleteTestimonial(id) /\ UNCHANGED requests
    \/ \E postId \in PostIds : GetComments(postId) /\ UNCHANGED requests
    \/ \E postId \in PostIds, body \in BlogBodies : CreateComment(postId, body) /\ UNCHANGED requests

PrayerSpec == Init /\ [][NextPrayers]_vars

PrayerCommentSpec == Init /\ [][NextPrayerComments]_vars

TestimonialSpec == Init /\ [][NextTestimonials]_vars

CommentSpec == Init /\ [][NextComments]_vars

CrudSpec == Init /\ [][NextCrud]_vars

\* the gate under every clock reading of the calendar, on a server started
\* at the epoch
InitGate == Seeded(0, 0) /\ clock \in 0..LastHour

NextGate ==
    \/ GetStatus(LastHour) /\ UNCHANGED requests
    \/ GetTestimonials /\ UNCHANGED requests

GateSpec == InitGate /\ [][NextGate]_vars

(***************************************************************************)
(* Requests in flight.  Every handler of server.js is a synchronous       *)
(* function: none awaits, none hands a callback to a timer or to I/O      *)
(* between its reads and its writes of the stores.  Node runs such a      *)
(* handler to completion before it takes the next request, so requests    *)
(* issued concurrently are handled one whole handler at a time, in any    *)
(* order.  requests.waiting holds the requests issued and not yet         *)
(* handled, requests.answers the answers in the order they were given.    *)
(***************************************************************************)
\* the requests a client may issue
Requests ==
    [op : {"heart", "deletePrayer"}, id : ParamIds(nextPrayerId)]
    \cup [op : {"approve"}, id : ParamIds(nextTestimonialId)]

InFlight == BagCardinality(requests.waiting)

\* a client issues request r while others may be in flight
Issue(r) ==
    /\ InFlight + Len(requests.answers) < MaxRequests
    /\ requests' = [requests EXCEPT !.waiting = @ (+) SetToBag({r})]
    /\ UNCHANGED <<store, clock, res>>

\* the handler the route of request r names
Handle(r) ==
    \/ r.op = "heart" /\ HeartPrayer(r.id)
    \/ r.op = "approve" /\ ApproveTestimonial(r.id)
    \/ r.op = "deletePrayer" /\ DeletePrayer(r.id)

\* the server takes request r and runs its handler; the answer records how
\* many other requests were in flight meanwhile
Serve(r) ==
    /\ BagIn(r, requests.waiting)
    /\ Handle(r)
    /\ requests' =
          [waiting |-> requests.waiting (-) SetToBag({r}),
           answers |-> Append(requests.answers,
                              [op |-> r.op, id |-> r.id, status |-> res'.status,
                               beside |-> InFlight - 1])]

NextConcurrent ==
    \/ Tick /\ UNCHANGED requests
    \/ \E body \in TestimonialBodies : CreateTestimonial(body) /\ UNCHANGED requests
    \/ \E r \in Requests : Issue(r)
    \/ \E r \in BagToSet(requests.waiting) : Serve(r)

ConcurrentSpec == Init /\ [][NextConcurrent]_vars

\* the prayer wall with its comments and the totals reported of it
NextStats ==
    \/ \E body \in PrayerBodies : CreatePrayer(body) /\ UNCHANGED requests
    \/ \E id \in ParamIds(nextPrayerId) : HeartPrayer(id) /\ UNCHANGED requests
    \/ \E id \in ParamIds(nextPrayerId), body \in CommentBodies :
          CreatePrayerComment(id, body) /\ UNCHANGED requests
    \/ \E id \in ParamIds(nextCommentId) : DeleteComment(id) /\ UNCHANGED requests
    \/ \E id \in ParamIds(nextPrayerId) : DeletePrayer(id) /\ UNCHANGED requests
    \/ GetAdminComments /\ UNCHANGED requests
    \/ GetStats /\ UNCHANGED requests

StatsSpec == Init /\ [][NextStats]_vars

(***************************************************************************)
(* Properties.  A step of a handler is recognised by the response it      *)
(* leaves in res': every action writes its own op.                        *)
(***************************************************************************)
Ids(arr) == {arr[i].id : i \in 1..Len(arr)}

\* C1: hearting an id that matches no stored prayer answers 404 and leaves
\* every prayer as it was; hearting a stored prayer answers 200, raises that
\* prayer's hearts by exactly 1 and changes no other prayer's hearts.
HeartStep ==
    res'.op = "heart" =>
        IF res'.id \in Ids(prayers)
        THEN /\ res'.status = 200
             /\ Len(prayers') = Len(prayers)
             /\ \A i \in 1..Len(prayers) :
                   /\ prayers'[i].id = prayers[i].id
                   /\ prayers'[i].hearts =
                         IF prayers[i].id = res'.id
                         THEN prayers[i].hearts + 1
                         ELSE prayers[i].hearts
        ELSE /\ res'.status = 404
             /\ prayers' = prayers

HeartIncrementsOne == [][HeartStep]_vars

\* a heart request on an unknown id was refused after an earlier one on a
\* stored prayer went through, with another prayer in the store
HeartWitness ==
    /\ res.op = "heart" /\ res.status = 404
    /\ Len(prayers) >= 2
    /\ \E i \in 1..Len(prayers) : prayers[i].hearts = InitialHearts(prayers[i].id) + 1
    /\ \E i \in 1..Len(prayers) : prayers[i].hearts = InitialHearts(prayers[i].id)

\* C9: POST /api/prayers with a missing, empty or whitespace-only request
\* answers 400 and leaves the prayers and nextPrayerId as they were.
BlankText(s) == ~IsString(s) \/ s.core = 0

CreatePrayerStep ==
    (res'.op = "createPrayer" /\ BlankText(res'.request)) =>
        /\ res'.status = 400
        /\ prayers' = prayers
        /\ nextPrayerId' = nextPrayerId

BlankPrayerRejected == [][CreatePrayerStep]_vars

\* a whitespace-only request was refused
BlankPrayerWitness ==
    /\ res.op = "createPrayer" /\ res.status = 400
    /\ IsString(res.request) /\ Length(res.request) > 0

\* the entity of arr that carries id
ById(arr, id) == arr[CHOOSE i \in 1..Len(arr) : arr[i].id = id]

\* arr without the entities that carry id, in the order of arr
RECURSIVE Without(_, _)
Without(arr, id) ==
    IF arr = <<>> THEN <<>>
    ELSE (IF arr[1].id = id THEN <<>> ELSE <<arr[1]>>) \o Without(Tail(arr), id)

\* every comment stored under the prayers
StoredComments(obj) ==
    UNION {{obj[k][i] : i \in 1..Len(obj[k])} : k \in DOMAIN obj}

\* C2: DELETE /api/prayers/:id on a stored prayer answers 200, removes that
\* prayer and every comment whose parent is that prayer, and leaves the
\* other prayers and their comments as they were; on an unknown id it
\* answers 404 and changes nothing.
DeletePrayerStep ==
    res'.op = "deletePrayer" =>
        IF res'.id \in Ids(prayers)
        THEN /\ res'.status = 200
             /\ prayers' = Without(prayers, res'.id)
             /\ DOMAIN prayerComments' = DOMAIN prayerComments \ {res'.id}
             /\ \A k \in DOMAIN prayerComments' : prayerComments'[k] = prayerComments[k]
             /\ \A c \in StoredComments(prayerComments') : c.prayer_id # res'.id
        ELSE /\ res'.status = 404
             /\ prayers' = prayers
             /\ prayerComments' = prayerComments

DeletePrayerCascades == [][DeletePrayerStep]_vars

\* a prayer was deleted after two comments were made, and the one comment
\* left belongs to a prayer that is still stored
DeletePrayerWitness ==
    /\ res.op = "deletePrayer" /\ res.status = 200
    /\ nextCommentId = FirstCommentId + 2
    /\ Cardinality(StoredComments(prayerComments)) = 1
    /\ \A c \in StoredComments(prayerComments) : c.prayer_id \in Ids(prayers)

\* C3: for every stored testimonial, approved_at is set exactly when
\* approved is true.
ApprovedAtIffApproved ==
    \A i \in 1..Len(testimonials) :
        (testimonials[i].approved_at # Null) <=> testimonials[i].approved

\* a submitted testimonial has just been approved while another one is
\* still pending
ApprovedAtWitness ==
    /\ res.op = "approve" /\ res.status = 200
    /\ NumberOf(res.id) >= FirstTestimonialId
    /\ \E i \in 1..Len(testimonials) : ~testimonials[i].approved

\* C4: a testimonial enters the store pending; its approved flag changes
\* only in a step of POST /api/testimonials/:id/approve on its id; once
\* approved it stays approved for as long as it is stored.
ApprovalStep ==
    \A j \in 1..Len(testimonials') :
        IF testimonials'[j].id \in Ids(testimonials)
        THEN LET before == ById(testimonials, testimonials'[j].id)
             IN  /\ before.approved => testimonials'[j].approved
                 /\ testimonials'[j].approved # before.approved =>
                       (res'.op = "approve" /\ res'.id = before.id)
        ELSE ~testimonials'[j].approved

ApprovalOneWay == [][ApprovalStep]_vars

\* a submitted testimonial is approved, and the array has since been sorted
ApprovalWitness ==
    /\ res.op = "getTestimonials"
    /\ \E i \in 1..Len(testimonials) :
          /\ NumberOf(testimonials[i].id) >= FirstTestimonialId
          /\ testimonials[i].approved
    /\ \E i \in 1..Len(testimonials) : ~testimonials[i].approved

\* C5: approving an approved testimonial answers 400, approving an unknown
\* id answers 404, and either leaves every testimonial as it was.
ApproveStep ==
    res'.op = "approve" =>
        IF res'.id \notin Ids(testimonials)
        THEN res'.status = 404 /\ testimonials' = testimonials
        ELSE ById(testimonials, res'.id).approved =>
                (res'.status = 400 /\ testimonials' = testimonials)

ReapproveRejected == [][ApproveStep]_vars

\* a second approval of a submitted testimonial was refused at a later
\* clock reading than the one its approved_at holds
ReapproveWitness ==
    /\ res.op = "approve" /\ res.status = 400
    /\ NumberOf(res.id) >= FirstTestimonialId
    /\ ById(testimonials, res.id).approved_at # At(clock)

\* the window the code documents: Tuesday 12:00 through Friday 23:59
DocumentedWindow(t) ==
    \/ getDay(t) = 2 /\ getHours(t) >= 12
    \/ getDay(t) = 3
    \/ getDay(t) = 4
    \/ getDay(t) = 5

\* C6: isTestimonialSubmissionOpen is true exactly in the documented
\* window, and POST /api/testimonials outside it answers 403.
SubmissionWindowAsDocumented ==
    /\ res.op = "getTestimonials" =>
          (res.submissionWindowOpen <=> DocumentedWindow(res.at))
    /\ res.op = "createTestimonial" =>
          (~DocumentedWindow(res.at) => res.status = 403)

\* C7: with the gate closed POST /api/testimonials answers 403 whatever the
\* body; with the gate open and a missing or blank testimony it answers 400
\* 'Testimony content required'; both leave the testimonials and
\* nextTestimonialId as they were.
CreateTestimonialStep ==
    res'.op = "createTestimonial" =>
        /\ ~isTestimonialSubmissionOpen(res'.at) =>
              /\ res'.status = 403
              /\ testimonials' = testimonials
              /\ nextTestimonialId' = nextTestimonialId
        /\ (isTestimonialSubmissionOpen(res'.at) /\ BlankText(res'.body.testimony)) =>
              /\ res'.status = 400
              /\ res'.error = "Testimony content required"
              /\ testimonials' = testimonials
              /\ nextTestimonialId' = nextTestimonialId

GateBeforeValidation == [][CreateTestimonialStep]_vars

\* a body that validation would refuse was answered 403
GateBeforeValidationWitness ==
    /\ res.op = "createTestimonial" /\ res.status = 403
    /\ BlankText(res.body.testimony)

\* in list, of two entities made by the create operation (id from first
\* on), the one created later comes first when it was created at a later
\* clock reading, and second when both were created at the same reading
NewestFirst(list, first) ==
    \A i, j \in 1..Len(list) :
        ( /\ NumberOf(list[i].id) >= first
          /\ NumberOf(list[i].id) < NumberOf(list[j].id) ) =>
            /\ list[i].created_at < list[j].created_at => j < i
            /\ list[i].created_at = list[j].created_at => i < j

\* the same for every pair of clock readings
LaterCreatedFirst(list, first) ==
    \A i, j \in 1..Len(list) :
        ( /\ NumberOf(list[i].id) >= first
          /\ NumberOf(list[i].id) < NumberOf(list[j].id) ) => j < i

\* blog comments: a create puts the comment in front of its post's array,
\* and a list answers the array as it is stored
BlogNewestFirst ==
    /\ res'.op = "createComment" =>
          comments'[res'.postId] =
              <<res'.comment>> \o GetOrEmpty(comments, res'.postId)
    /\ res'.op = "getComments" =>
          res'.list = GetOrEmpty(comments, res'.postId)

\* C8 as stated: every list answers, of two entities created one after the
\* other in the same collection, the later one first, whatever clock
\* readings the two creations saw.
ListStepAsClaimed ==
    /\ res'.op = "getPrayers" =>
          Ids(res'.list) = Ids(prayers) /\ LaterCreatedFirst(res'.list, FirstPrayerId)
    /\ res'.op = "getPrayerComments" =>
          /\ Ids(res'.list) = Ids(GetOrEmpty(prayerComments, res'.id))
          /\ LaterCreatedFirst(res'.list, FirstCommentId)
    /\ res'.op = "getTestimonials" =>
          /\ Ids(res'.list) = Ids(testimonials)
          /\ LaterCreatedFirst(res'.list, FirstTestimonialId)
    /\ BlogNewestFirst

ListLaterCreatedFirst == [][ListStepAsClaimed]_vars

\* C8 as amended: every list of prayers, prayer comments and testimonials
\* answers, of two entities created one after the other, the later one first
\* when its creation read a strictly later clock value and the earlier one
\* first when both creations read the same value; blog comments come newest
\* first for every pair of readings.
ListStep ==
    /\ res'.op = "getPrayers" =>
          Ids(res'.list) = Ids(prayers) /\ NewestFirst(res'.list, FirstPrayerId)
    /\ res'.op = "getPrayerComments" =>
          /\ Ids(res'.list) = Ids(GetOrEmpty(prayerComments, res'.id))
          /\ NewestFirst(res'.list, FirstCommentId)
    /\ res'.op = "getTestimonials" =>
          /\ Ids(res'.list) = Ids(testimonials)
          /\ NewestFirst(res'.list, FirstTestimonialId)
    /\ BlogNewestFirst

ListNewestFirst == [][ListStep]_vars

\* two prayers were created at different clock readings and then listed
ListWitness ==
    /\ res.op = "getPrayers"
    /\ \E i, j \in 1..Len(res.list) :
          /\ NumberOf(res.list[i].id) >= FirstPrayerId
          /\ NumberOf(res.list[i].id) < NumberOf(res.list[j].id)
          /\ res.list[i].created_at < res.list[j].created_at

\* the readings that lie before the window of their week
BeforeWindow(t) ==
    getDay(t) = 0 \/ getDay(t) = 1 \/ (getDay(t) = 2 /\ getHours(t) < 12)

\* Tuesday 12:00 of the week (Sunday to Saturday) of reading t
TuesdayNoonOfWeek(t) == (DayOf(t) - getDay(t) + 2) * HoursPerDay + 12

\* C10: when currentTime is a Sunday, a Monday or a Tuesday before 12:00,
\* the next window GET /api/testimonials/status answers is Tuesday 12:00 of
\* the same week.
NextWindowSameWeek ==
    (res.op = "getStatus" /\ BeforeWindow(res.currentTime)) =>
        res.nextSubmissionWindow = TuesdayNoonOfWeek(res.currentTime)

\* Tuesday 12:00 of the week after the week of reading t
TuesdayNoonOfFollowingWeek(t) == TuesdayNoonOfWeek(t) + DaysPerWeek * HoursPerDay

\* the readings at which the gate is closed after the window of their week
AfterWindow(t) ==
    getDay(t) = 6 \/ (~isTestimonialSubmissionOpen(t) /\ ~BeforeWindow(t))

\* C11: when currentTime is a Saturday, or any other reading at which the
\* gate is closed after the window, the next window GET
\* /api/testimonials/status answers is Tuesday 12:00 of the following week.
NextWindowFollowingWeek ==
    (res.op = "getStatus" /\ AfterWindow(res.currentTime)) =>
        res.nextSubmissionWindow = TuesdayNoonOfFollowingWeek(res.currentTime)

\* C12: the next window GET /api/testimonials/status answers is, for every
\* currentTime, gate open or closed, a Tuesday 12:00 strictly later than
\* currentTime.
NextWindowStrictlyLater ==
    res.op = "getStatus" =>
        /\ getDay(res.nextSubmissionWindow) = 2
        /\ getHours(res.nextSubmissionWindow) = 12
        /\ res.nextSubmissionWindow > res.currentTime

\* what validation demands of a stored testimonial: a testimony that is not
\* empty after trimming and has at most 2000 characters, and a display name
\* that is not empty unless it was sent anonymously
TestimonialValid(t) ==
    /\ IsString(t.testimony)
    /\ ~IsEmpty(Trim(t.testimony))
    /\ Length(t.testimony) <= MaxTestimonyLength
    /\ ~t.anonymous => (IsString(t.name) /\ ~IsEmpty(t.name))

TestimonialsValid ==
    \A i \in 1..Len(testimonials) : TestimonialValid(testimonials[i])

\* a body that, stored as POST /api/testimonials stores it, would break
\* one of the demands
BreaksTestimonialRules(body) ==
    \/ BlankText(body.testimony)
    \/ Length(Trim(body.testimony)) > MaxTestimonyLength
    \/ (~body.anonymous /\ BlankText(body.name))

\* C13 as stated: every stored testimonial meets the demands, and a create
\* request that breaks one of them is answered 400 and leaves the store
\* unchanged.
InvalidTestimonialStepAsClaimed ==
    (res'.op = "createTestimonial" /\ BreaksTestimonialRules(res'.body)) =>
        /\ res'.status = 400
        /\ testimonials' = testimonials
        /\ nextTestimonialId' = nextTestimonialId

InvalidTestimonialStep ==
    (res'.op = "createTestimonial" /\ BreaksTestimonialRules(res'.body)) =>
        /\ res'.status = IF isTestimonialSubmissionOpen(res'.at) THEN 400 ELSE 403
        /\ testimonials' = testimonials
        /\ nextTestimonialId' = nextTestimonialId

CommentTextValid(c) == IsString(c.content) /\ ~IsEmpty(Trim(c.content))

\* the prayer comments keep their text
PrayerCommentsHaveText ==
    /\ \A c \in StoredComments(prayerComments) : CommentTextValid(c)
    /\ [][ (res'.op = "createPrayerComment" /\ BlankText(res'.content)) =>
              /\ res'.status = 400
              /\ prayerComments' = prayerComments
              /\ nextCommentId' = nextCommentId ]_vars

\* C14: every stored comment, on a blog post or on a prayer, has a text that
\* is not empty after trimming, and a create request whose content is
\* missing or empty is answered 400 and stores nothing.
BlankCommentStep ==
    /\ (res'.op = "createComment" /\ BlankText(res'.comment.content)) =>
          res'.status = 400 /\ comments' = comments
    /\ (res'.op = "createPrayerComment" /\ BlankText(res'.content)) =>
          /\ res'.status = 400
          /\ prayerComments' = prayerComments
          /\ nextCommentId' = nextCommentId

CommentsHaveText ==
    /\ [](\A c \in StoredComments(comments) \cup StoredComments(prayerComments) :
             CommentTextValid(c))
    /\ [][BlankCommentStep]_vars

\* the ids of the entities of arr are pairwise different
UniqueIds(arr) ==
    \A i, j \in 1..Len(arr) : arr[i].id = arr[j].id => i = j

\* the arrays stored under the keys of obj, one after the other
RECURSIVE Flatten(_, _)
Flatten(obj, keys) ==
    IF keys = {} THEN <<>>
    ELSE LET k == CHOOSE x \in keys : TRUE
         IN  obj[k] \o Flatten(obj, keys \ {k})

\* the collections whose ids come from a counter
CounterIdsUnique ==
    /\ UniqueIds(prayers)
    /\ UniqueIds(testimonials)
    /\ UniqueIds(Flatten(prayerComments, DOMAIN prayerComments))

\* C15: no two stored entities of one collection share an id: prayers,
\* testimonials, the prayer comments of all prayers, and the blog comments,
\* whose id is the clock reading of their creation.
IdsUnique ==
    /\ CounterIdsUnique
    /\ UniqueIds(Flatten(comments, DOMAIN comments))

\* the places in requests.answers of the answers with this status to
\* requests of this op on this id
Answers(op, id, status) ==
    {k \in 1..Len(requests.answers) :
        /\ requests.answers[k].op = op
        /\ requests.answers[k].id = id
        /\ requests.answers[k].status = status}

\* every stored prayer has the hearts it entered the store with and one
\* more for each heart request on it that was answered 200
HeartsCounted ==
    \A i \in 1..Len(prayers) :
        prayers[i].hearts =
            InitialHearts(prayers[i].id)
            + Cardinality(Answers("heart", prayers[i].id, 200))

\* a stored testimonial that was submitted has one approve request answered
\* 200 if it is approved and none if it is pending; a seeded one has none;
\* every approve request on it answered 400 was handled when it was
\* approved already, and none was answered 404
ApprovedOnce ==
    \A i \in 1..Len(testimonials) :
        LET t == testimonials[i]
            submitted == NumberOf(t.id) >= FirstTestimonialId
            ok == Answers("approve", t.id, 200)
        IN  /\ Cardinality(ok) = IF submitted /\ t.approved THEN 1 ELSE 0
            /\ \A k \in Answers("approve", t.id, 400) :
                  ~submitted \/ \E j \in ok : j < k
            /\ Answers("approve", t.id, 404) = {}

\* C16: requests issued concurrently are answered as whole operations one
\* after the other: N heart requests on a stored prayer raise its hearts by
\* exactly N, and of the approve requests on a pending testimonial exactly
\* one is answered 200 and the others 400.
RequestsAtomic == HeartsCounted /\ ApprovedOnce

\* two approve requests on one pending testimonial were in flight together
\* and have both been answered, the first 200 and the second 400
RequestsWitness ==
    /\ Len(requests.answers) >= 2
    /\ requests.answers[1].op = "approve"
    /\ requests.answers[1].status = 200
    /\ requests.answers[1].beside >= 1
    /\ requests.answers[2].op = "approve"
    /\ requests.answers[2].id = requests.answers[1].id
    /\ requests.answers[2].status = 400

\* in a step, a prayer stored before and after it has at least the hearts
\* it had, and a prayer that enters the store has none
HeartsStep ==
    \A j \in 1..Len(prayers') :
        IF prayers'[j].id \in Ids(prayers)
        THEN prayers'[j].hearts >= ById(prayers, prayers'[j].id).hearts
        ELSE prayers'[j].hearts = 0

\* C17: the hearts of every stored prayer are a natural number, never
\* decrease in a step of any operation, and are 0 when the prayer is
\* created.
HeartsNeverDecrease ==
    /\ [](\A i \in 1..Len(prayers) : prayers[i].hearts \in Nat)
    /\ [][HeartsStep]_vars

\* a prayer that was created has been hearted, and the array has since been
\* sorted
HeartsWitness ==
    /\ res.op = "getPrayers"
    /\ \E i \in 1..Len(prayers) :
          /\ NumberOf(prayers[i].id) >= FirstPrayerId
          /\ prayers[i].hearts > 0

ParentsExist ==
    \A k \in DOMAIN prayerComments :
        \A i \in 1..Len(prayerComments[k]) :
            /\ prayerComments[k][i].prayer_id = k
            /\ k \in Ids(prayers)

\* POST /api/prayers/:id/comments with content that passes, on an id that
\* is no stored prayer's, answers 404 and stores nothing
OrphanCommentStep ==
    ( /\ res'.op = "createPrayerComment"
      /\ ~BlankText(res'.content)
      /\ res'.id \notin Ids(prayers) ) =>
        /\ res'.status = 404
        /\ prayerComments' = prayerComments
        /\ nextCommentId' = nextCommentId

\* C20: every stored prayer comment's parent, by its key and by its
\* prayer_id, is a prayer that is stored, over all creates and deletes of
\* prayers and comments; a comment with valid content on an id that is no
\* stored prayer's is answered 404 and stores nothing.
CommentParentsExist == []ParentsExist /\ [][OrphanCommentStep]_vars

\* a comment on a deleted prayer was answered 404 while another prayer's
\* comment is stored
OrphanCommentWitness ==
    /\ res.op = "createPrayerComment" /\ res.status = 404
    /\ ~BlankText(res.content)
    /\ NumberOf(res.id) < nextPrayerId
    /\ res.id = String(NumberOf(res.id))
    /\ res.id \notin Ids(prayers)
    /\ StoredComments(prayerComments) # {}

\* in list, of two entities with the same created_at, the one inserted
\* first (the one with the lower id of the counter) comes first
TiesInInsertionOrder(list) ==
    \A i, j \in 1..Len(list) :
        ( /\ list[i].created_at = list[j].created_at
          /\ NumberOf(list[i].id) < NumberOf(list[j].id) ) => i < j

\* a list of a sorted collection answers ties in insertion order, leaves
\* the stored array in the order it answered, and would answer that array
\* in the same order again
TiedListStep ==
    /\ res'.op = "getPrayers" =>
          /\ TiesInInsertionOrder(res'.list)
          /\ prayers' = res'.list
          /\ SortByCreatedDesc(prayers') = res'.list
    /\ res'.op = "getPrayerComments" =>
          /\ TiesInInsertionOrder(res'.list)
          /\ GetOrEmpty(prayerComments', res'.id) = res'.list
          /\ SortByCreatedDesc(res'.list) = res'.list
    /\ res'.op = "getTestimonials" =>
          /\ TiesInInsertionOrder(res'.list)
          /\ testimonials' = res'.list
          /\ SortByCreatedDesc(testimonials') = res'.list

\* C18 as stated: in every collection, entities with the same creation
\* timestamp are listed in insertion order, the same on every list call;
\* for blog comments, which all carry created_at 'Just now', the array a
\* list answers has each created comment after those inserted before it.
TiedListStepAsClaimed ==
    /\ TiedListStep
    /\ res'.op = "createComment" =>
          comments'[res'.postId] =
              Append(GetOrEmpty(comments, res'.postId), res'.comment)
    /\ res'.op = "getComments" =>
          res'.list = GetOrEmpty(comments, res'.postId)

TiesInInsertionOrderEverywhere == [][TiedListStepAsClaimed]_vars

\* C18 as amended: prayers, prayer comments and testimonials with the same
\* creation timestamp are listed in insertion order, the same on every list
\* call; blog comments, which all carry created_at 'Just now', are listed
\* with the later-inserted one first.
TiesInInsertionOrderWhereSorted == [][TiedListStep /\ BlogNewestFirst]_vars

\* two prayers, the first of them created by a request, carry the same
\* created_at and were listed
TiedListWitness ==
    /\ res.op = "getPrayers"
    /\ prayers = res.list
    /\ \E i, j \in 1..Len(res.list) :
          /\ i < j
          /\ NumberOf(res.list[i].id) >= FirstPrayerId
          /\ res.list[i].created_at = res.list[j].created_at

\* the counters never go back, and every stored id of a counter is below it
CountersAhead ==
    /\ \A i \in 1..Len(prayers) : NumberOf(prayers[i].id) < nextPrayerId
    /\ \A i \in 1..Len(testimonials) :
          NumberOf(testimonials[i].id) < nextTestimonialId
    /\ \A c \in StoredComments(prayerComments) : NumberOf(c.id) < nextCommentId

\* a create that is answered 201 hands out the counter's value and moves the
\* counter one up; every other step, a refused create and a delete among
\* them, leaves the counter where it is
CounterStep ==
    /\ IF res'.op = "createPrayer" /\ res'.status = 201
       THEN res'.id = String(nextPrayerId) /\ nextPrayerId' = nextPrayerId + 1
       ELSE nextPrayerId' = nextPrayerId
    /\ IF res'.op = "createPrayerComment" /\ res'.status = 201
       THEN res'.comment = String(nextCommentId)
            /\ nextCommentId' = nextCommentId + 1
       ELSE nextCommentId' = nextCommentId
    /\ IF res'.op = "createTestimonial" /\ res'.status = 201
       THEN res'.id = String(nextTestimonialId)
            /\ nextTestimonialId' = nextTestimonialId + 1
       ELSE nextTestimonialId' = nextTestimonialId

\* C21: the ids of prayers, prayer comments and testimonials are never
\* reissued: the first created prayer and testimonial get "3" and the first
\* prayer comment "1", each later successful create gets the next number,
\* a refused create uses up no id, and a delete frees none.
IdsNeverReissued ==
    /\ nextPrayerId = 3 /\ nextTestimonialId = 3 /\ nextCommentId = 1
    /\ []CountersAhead
    /\ [][CounterStep]_vars

\* the first created prayer was deleted and the next create got a higher id
IdsNeverReissuedWitness ==
    /\ res.op = "createPrayer" /\ res.status = 201
    /\ NumberOf(res.id) > FirstPrayerId
    /\ String(FirstPrayerId) \notin Ids(prayers)

\* the hearts of the prayers at the places of S, added up
RECURSIVE HeartsAt(_)
HeartsAt(S) ==
    IF S = {} THEN 0
    ELSE LET i == CHOOSE x \in S : TRUE
         IN  prayers[i].hearts + HeartsAt(S \ {i})

\* C22: GET /api/stats reports the number of stored prayers, the sum of
\* their hearts and the number of stored prayer comments, and GET
\* /api/admin/comments reports that same number of comments; what a deleted
\* prayer had is in none of the totals.
StatsMatchStore ==
    /\ res.op = "getStats" =>
          /\ res.totalPrayers = Cardinality(Ids(prayers))
          /\ res.totalHearts = HeartsAt(1..Len(prayers))
          /\ res.totalComments = Cardinality(StoredComments(prayerComments))
    /\ res.op = "getAdminComments" =>
          /\ res.total = Cardinality(StoredComments(prayerComments))
          /\ Len(res.list) = res.total

\* the totals were reported after the first seeded prayer was deleted, with
\* comments made that are no longer stored, with other comments stored and
\* with hearts added to the prayers that are left
StatsWitness ==
    /\ res.op = "getStats"
    /\ String(1) \notin Ids(prayers)
    /\ res.totalComments > 0
    /\ res.totalComments < nextCommentId - FirstCommentId
    /\ HeartsAdded(prayers) > 0

\* C23: DELETE /api/comments/:id on the id of a stored prayer comment
\* answers 200 and removes that one comment, so that one comment fewer is
\* stored, and leaves the other comments, their order and the prayers as
\* they were; on any other id it answers 404 and changes nothing.
DeleteCommentStep ==
    res'.op = "deleteComment" =>
        IF \E c \in StoredComments(prayerComments) : c.id = res'.id
        THEN /\ res'.status = 200
             /\ DOMAIN prayerComments' = DOMAIN prayerComments
             /\ \A k \in DOMAIN prayerComments :
                   prayerComments'[k] = Without(prayerComments[k], res'.id)
             /\ Cardinality(StoredComments(prayerComments')) =
                   Cardinality(StoredComments(prayerComments)) - 1
             /\ prayers' = prayers
        ELSE /\ res'.status = 404
             /\ prayerComments' = prayerComments
             /\ prayers' = prayers

DeleteCommentRemovesOne == [][DeleteCommentStep]_vars

\* a comment was deleted while a comment created after it is stored
DeleteCommentWitness ==
    /\ res.op = "deleteComment" /\ res.status = 200
    /\ \E k \in DOMAIN prayerComments :
          /\ Len(prayerComments[k]) > 0
          /\ \E i \in 1..Len(prayerComments[k]) :
                NumberOf(prayerComments[k][i].id) > NumberOf(res.id)

====
